---- MODULE Spec2Model ----
(***************************************************************************)
(* Irrigation analytics endpoint of sebaespinosa/test_NF:                  *)
(*   controller  AnalyticsController.GetAnalytics                          *)
(*   service     IrrigationAnalyticsService.GetAnalytics                   *)
(*   repository  IrrigationDataRepository (three aggregate queries)        *)
(* over a store of irrigation_data rows and a wall clock.                  *)
(*                                                                         *)
(* Representation                                                          *)
(*   instant    <<day, sec, nsec>>: days since 1970-01-01 (UTC), second of *)
(*              the day, nanosecond of the second; ordered lexically.      *)
(*   *T         a nullable Go pointer is Nil (<<>>) or Some(v) (<<v>>).    *)
(*   float64    an exact rational <<num, den>>, den > 0, in lowest terms;  *)
(*              numeric(10,2) amounts are integers <<n, 1>>. Rounding of   *)
(*              IEEE arithmetic is not modelled.                           *)
(*   query text a raw path or query parameter is a token                   *)
(*              [kind, n]: "absent", "num" (a decimal integer n), "all",   *)
(*              "date" (YYYY-MM-DD of day n), "text" (anything else).      *)
(***************************************************************************)
EXTENDS Integers, Sequences, FiniteSets, Bags, TLC

(***************************************************************************)
(* Nullable values                                                         *)
(***************************************************************************)
Nil == <<>>

Some(v) == <<v>>

IsNil(p) == p = <<>>

Deref(p) == p[1]

(***************************************************************************)
(* Exact rationals standing for float64 / numeric                          *)
(***************************************************************************)
Abs(n) == IF n < 0 THEN -n ELSE n

RECURSIVE Gcd(_, _)
Gcd(a, b) == IF b = 0 THEN a ELSE Gcd(b, a % b)

Rat(n, d) ==
    LET g == Gcd(Abs(n), Abs(d))
        s == IF d < 0 THEN -1 ELSE 1
    IN  IF n = 0 THEN <<0, 1>> ELSE <<(s * n) \div g, (s * d) \div g>>

RInt(n) == <<n, 1>>

RAdd(a, b) == Rat(a[1] * b[2] + b[1] * a[2], a[2] * b[2])

RSub(a, b) == Rat(a[1] * b[2] - b[1] * a[2], a[2] * b[2])

RMul(a, b) == Rat(a[1] * b[1], a[2] * b[2])

\* b # 0
RDiv(a, b) == Rat(a[1] * b[2], a[2] * b[1])

RLess(a, b) == a[1] * b[2] < b[1] * a[2]

RPos(a) == a[1] > 0

(***************************************************************************)
(* Calendar (proleptic Gregorian, UTC), as package time computes it        *)
(***************************************************************************)
IsLeap(y) == (y % 4 = 0 /\ y % 100 # 0) \/ y % 400 = 0

DaysInMonth(y, m) ==
    IF m = 2 THEN (IF IsLeap(y) THEN 29 ELSE 28)
    ELSE IF m \in {4, 6, 9, 11} THEN 30 ELSE 31

\* days from 1970-01-01 to January 1st of year y
DaysBeforeYear(y) ==
    LET p == y - 1
    IN  365 * (y - 1970) + (p \div 4 - 1969 \div 4) - (p \div 100 - 1969 \div 100)
        + (p \div 400 - 1969 \div 400)

RECURSIVE DaysBeforeMonth(_, _)
DaysBeforeMonth(y, m) ==
    IF m = 1 THEN 0 ELSE DaysBeforeMonth(y, m - 1) + DaysInMonth(y, m - 1)

\* time.Date(y, m, d, ...): the day number; a day past the end of the month
\* normalizes into the following month (February 29 of a common year is March 1)
GoDate(y, m, d) == DaysBeforeYear(y) + DaysBeforeMonth(y, m) + (d - 1)

RECURSIVE YearFrom(_, _)
YearFrom(n, y) == IF n < DaysBeforeYear(y + 1) THEN y ELSE YearFrom(n, y + 1)

\* t.Year() of day number n (n >= 0)
YearOf(n) == YearFrom(n, 1970 + n \div 366)

RECURSIVE MonthFrom(_, _, _)
MonthFrom(rest, y, m) ==
    IF rest < DaysInMonth(y, m) THEN m ELSE MonthFrom(rest - DaysInMonth(y, m), y, m + 1)

\* t.Month()
MonthOf(n) == MonthFrom(n - DaysBeforeYear(YearOf(n)), YearOf(n), 1)

\* t.Day()
DayOf(n) == n - GoDate(YearOf(n), MonthOf(n), 1) + 1

\* 0 = Monday .. 6 = Sunday (1970-01-01 was a Thursday)
WeekdayOf(n) == (n + 3) % 7

Instant(day, sec, nsec) == <<day, sec, nsec>>

\* a <= b on instants
TimeLeq(a, b) ==
    \/ a[1] < b[1]
    \/ a[1] = b[1] /\ a[2] < b[2]
    \/ a[1] = b[1] /\ a[2] = b[2] /\ a[3] <= b[3]

(***************************************************************************)
(* Bounds of the model                                                     *)
(***************************************************************************)
\* rows of irrigation_data the store may hold
MaxRecords == 2

(***************************************************************************)
(* Tables. farms and irrigation_sectors are seeded once and only read by   *)
(* the endpoint; irrigation_data is the variable store.                    *)
(***************************************************************************)
\* farms.id of the seeded farms
Farms == {1, 2}

\* irrigation_sectors: id -> farm_id
SectorFarm == (1 :> 1) @@ (2 :> 1) @@ (3 :> 2)

Sectors == DOMAIN SectorFarm

\* irrigation_sectors.name
SectorName(s) == IF s = 1 THEN "North Field" ELSE IF s = 2 THEN "South Field" ELSE "East Field"

Noon == 12 * 3600

\* model.IrrigationData: the columns the analytics queries read
IrrigationData(farm, sector, start, nominal, real) ==
    [farm_id |-> farm, irrigation_sector_id |-> sector, start_time |-> start,
     nominal_amount |-> nominal, real_amount |-> real]

\* calendar days on which the modelled ordinary events start; 2024-12-30 is the
\* Monday of the week that holds 2025-01-01
RecordDays ==
    {GoDate(2025, 6, 10), GoDate(2024, 6, 10), GoDate(2023, 6, 10), GoDate(2024, 12, 30),
     GoDate(2025, 3, 1)}

\* second of the day of 23:59:59
LastSecond == 23 * 3600 + 59 * 60 + 59

\* the rows Create may insert: an ordinary event of sector 1 of farm 1 on every
\* day of RecordDays, one in the last second of 2025-06-30, and on single days
\* events with other amounts (nominal 0, real 0, full delivery), of another
\* sector and of another farm
RecordInputs ==
    {IrrigationData(1, 1, Instant(d, Noon, 0), 2, 1) : d \in RecordDays}
    \cup {IrrigationData(1, 1, Instant(GoDate(2025, 6, 30), LastSecond, 500000000), 2, 1),
          IrrigationData(1, 1, Instant(GoDate(2025, 1, 1), Noon, 0), 4, 4),
          IrrigationData(1, 1, Instant(GoDate(2025, 6, 10), Noon, 0), 0, 3),
          IrrigationData(1, 1, Instant(GoDate(2024, 6, 10), Noon, 0), 0, 3),
          IrrigationData(1, 1, Instant(GoDate(2024, 6, 10), Noon, 0), 4, 0),
          IrrigationData(1, 2, Instant(GoDate(2025, 6, 10), Noon, 0), 4, 4),
          IrrigationData(2, 3, Instant(GoDate(2025, 6, 10), Noon, 0), 4, 4)}

\* instants at which the wall clock is read, in order
ClockInstants ==
    <<Instant(GoDate(2025, 6, 15), Noon, 0), Instant(GoDate(2026, 2, 10), Noon, 0)>>

(***************************************************************************)
(* Go's int on the 64-bit build: two's complement in four 16-bit limbs,     *)
(* least significant first                                                 *)
(***************************************************************************)
LimbBase == 65536

\* the int of a non-negative number below 2^31
ToInt64(n) == <<n % LimbBase, n \div LimbBase, 0, 0>>

\* the number of an int in 0 .. 2^31 - 1
ToInteger(a) == a[1] + LimbBase * a[2]

\* the sign bit is set
IsNegative(a) == a[4] >= LimbBase \div 2

RECURSIVE Decrement(_)
\* a - 1 for a >= 1
Decrement(a) ==
    IF Head(a) > 0 THEN <<Head(a) - 1>> \o Tail(a)
    ELSE <<LimbBase - 1>> \o Decrement(Tail(a))

RECURSIVE Product(_, _, _)
\* the limbs of a * n + carry, one more than a has: the mathematical product
Product(a, n, carry) ==
    IF a = <<>> THEN <<carry>>
    ELSE LET t == Head(a) * n + carry
         IN  <<t % LimbBase>> \o Product(Tail(a), n, t \div LimbBase)

\* (page-1)*limit in int: the low 64 bits of the product
Offset64(page, limit) == SubSeq(Product(Decrement(page), limit, 0), 1, 4)

VARIABLES
    store,      \* irrigation_data: a bag of IrrigationData rows
    clock,      \* index into ClockInstants: what time.Now() returns
    pc,         \* "idle", or "done" once the handler has written its response
    req,        \* the raw request being answered
    fault,      \* the query the database fails while req is handled, with its error
    calls,      \* the service and repository methods invoked for req, in order
    resp,       \* the HTTP response written for req
    inflight,   \* per concurrently handled request: its position and its locals
    arith       \* a page and a limit of the boundary, and the offset computed from them

vars == <<store, clock, pc, req, fault, calls, resp, inflight, arith>>

Now == ClockInstants[clock]

(***************************************************************************)
(* Folds over sequences of rows                                            *)
(***************************************************************************)
RECURSIVE BagSeq(_)
\* the rows of a bag, one entry per copy
BagSeq(B) ==
    IF DOMAIN B = {} THEN <<>>
    ELSE LET r == CHOOSE x \in DOMAIN B : TRUE
             rest == [x \in DOMAIN B \ {r} |-> B[x]]
         IN  [i \in 1..B[r] |-> r] \o BagSeq(rest)

RECURSIVE SumReal(_)
SumReal(rows) == IF rows = <<>> THEN 0 ELSE Head(rows).real_amount + SumReal(Tail(rows))

RECURSIVE SumNominal(_)
SumNominal(rows) ==
    IF rows = <<>> THEN 0 ELSE Head(rows).nominal_amount + SumNominal(Tail(rows))

RECURSIVE RSum(_)
RSum(q) == IF q = <<>> THEN RInt(0) ELSE RAdd(Head(q), RSum(Tail(q)))

RECURSIVE RMin(_)
RMin(q) ==
    IF Len(q) = 1 THEN q[1]
    ELSE LET m == RMin(Tail(q)) IN IF RLess(q[1], m) THEN q[1] ELSE m

RECURSIVE RMax(_)
RMax(q) ==
    IF Len(q) = 1 THEN q[1]
    ELSE LET m == RMax(Tail(q)) IN IF RLess(m, q[1]) THEN q[1] ELSE m

\* Efficiencies counting a row without nominal amount as efficiency 0
EfficienciesZeroForNoNominal(rows) ==
    [i \in 1..Len(rows) |->
        IF rows[i].nominal_amount > 0
        THEN Rat(rows[i].real_amount, rows[i].nominal_amount)
        ELSE RInt(0)]

\* CASE WHEN nominal_amount > 0 THEN real_amount / nominal_amount ELSE NULL END
\* over the rows: the non-NULL values
Efficiencies(rows) ==
    LET eligible == SelectSeq(rows, LAMBDA r : r.nominal_amount > 0)
    IN  [i \in 1..Len(eligible) |-> Rat(eligible[i].real_amount, eligible[i].nominal_amount)]

\* AVG(...)::float : NULL over no value
SqlAvg(q) == IF q = <<>> THEN Nil ELSE Some(RDiv(RSum(q), RInt(Len(q))))

SqlMin(q) == IF q = <<>> THEN Nil ELSE Some(RMin(q))

SqlMax(q) == IF q = <<>> THEN Nil ELSE Some(RMax(q))

(***************************************************************************)
(* Errors: an error value is the chain of its messages, outermost first;   *)
(* Error() joins the chain with ": ".                                      *)
(***************************************************************************)
\* no error
NoError == <<>>

\* the error of a failed query, as the database driver reports it
DbError == <<"db error">>

\* fmt.Errorf(msg + ": %w", err)
Wrap(msg, err) == <<msg>> \o err

\* errors.Is(err, target): target is err or is wrapped by it
ErrorsIs(err, target) ==
    /\ Len(target) <= Len(err)
    /\ SubSeq(err, Len(err) - Len(target) + 1, Len(err)) = target

\* the texts with which the driver may report a failed query
DbErrors == {DbError, <<"connection refused">>}

\* the database fails query q of the repository with error e
Fault(q, e) == [query |-> q, err |-> e]

\* every query succeeds
NoFault == Fault("none", NoError)

\* what the database may do to the four queries of one request
Faults ==
    {NoFault}
    \cup {Fault(q, DbError) : q \in {"count", "buckets", "yoy", "sectors"}}
    \cup {Fault("buckets", e) : e \in DbErrors}

(***************************************************************************)
(* Aggregation query layer: repository/irrigation_data_repository.go       *)
(***************************************************************************)
\* WHERE farm_id = ? AND start_time >= ? AND start_time <= ?
Matching(S, farmID, startTime, endTime) ==
    SelectSeq(BagSeq(S), LAMBDA r : /\ r.farm_id = farmID
                                    /\ TimeLeq(startTime, r.start_time)
                                    /\ TimeLeq(r.start_time, endTime))

\* DATE_TRUNC(truncFormat, start_time): the day the bucket begins; every
\* aggregation other than weekly and monthly truncates to the day
DateTrunc(aggregation, t) ==
    IF aggregation = "weekly" THEN t[1] - WeekdayOf(t[1])
    ELSE IF aggregation = "monthly" THEN GoDate(YearOf(t[1]), MonthOf(t[1]), 1)
    ELSE t[1]

\* one row of the SELECT list shared by the bucket query and the YoY query
Aggregate(period, year, rows) ==
    [Period |-> period, Year |-> year,
     TotalRealAmount |-> RInt(SumReal(rows)),
     TotalNominalAmount |-> RInt(SumNominal(rows)),
     EventCount |-> Len(rows),
     AvgEfficiency |-> SqlAvg(Efficiencies(rows)),
     MinEfficiency |-> SqlMin(Efficiencies(rows)),
     MaxEfficiency |-> SqlMax(Efficiencies(rows))]

\* GROUP BY DATE_TRUNC(truncFormat, start_time), year
GroupKey(aggregation, r) == <<DateTrunc(aggregation, r.start_time), YearOf(r.start_time[1])>>

\* the grouped rows of GetAnalyticsForFarmByDateRange before ORDER BY
BucketRows(S, farmID, startTime, endTime, aggregation) ==
    LET m == Matching(S, farmID, startTime, endTime)
        keys == {GroupKey(aggregation, m[i]) : i \in 1..Len(m)}
    IN  {Aggregate(k[1], k[2], SelectSeq(m, LAMBDA r : GroupKey(aggregation, r) = k)) :
            k \in keys}

RECURSIVE OrderByPeriod(_)
\* ORDER BY period ASC: every sequence of the rows ascending by period; rows of
\* equal period come in an order the storage engine chooses per query
OrderByPeriod(rows) ==
    IF rows = {} THEN {<<>>}
    ELSE UNION {{<<r>> \o rest : rest \in OrderByPeriod(rows \ {r})} :
                  r \in {x \in rows : \A y \in rows : x.Period <= y.Period}}

\* LIMIT limit OFFSET offset (offset >= 0)
LimitOffset(q, limit, offset) ==
    SubSeq(q, offset + 1, IF offset + limit < Len(q) THEN offset + limit ELSE Len(q))

\* countQuery.Count(&totalCount): the rows of the farm in the range
CountQuery(S, farmID, startTime, endTime) == Len(Matching(S, farmID, startTime, endTime))

\* GetAnalyticsForFarmByDateRange: the possible (results, totalCount) pairs
GetAnalyticsForFarmByDateRange(S, farmID, startTime, endTime, aggregation, limit, offset) ==
    {[results |-> LimitOffset(q, limit, offset),
      totalCount |-> CountQuery(S, farmID, startTime, endTime)] :
        q \in OrderByPeriod(BucketRows(S, farmID, startTime, endTime, aggregation))}

\* the error GetAnalyticsForFarmByDateRange returns when its count query or its
\* bucket query fails
GetAnalyticsForFarmByDateRangeError(f) ==
    IF f.query = "count" THEN Wrap("failed to count irrigation data", f.err)
    ELSE Wrap("failed to get analytics for farm", f.err)

\* the error GetYoYComparison returns when its query fails
GetYoYComparisonError(f) == Wrap("failed to get YoY comparison", f.err)

\* the error GetSectorBreakdownForFarm returns when its query fails
GetSectorBreakdownForFarmError(f) == Wrap("failed to get sector breakdown", f.err)

\* one SELECT of the UNION ALL: GROUP BY EXTRACT(YEAR FROM start_time)
YearRows(S, farmID, from, to) ==
    LET m == Matching(S, farmID, from, to)
        years == {YearOf(m[i].start_time[1]) : i \in 1..Len(m)}
    IN  {Aggregate(0, y, SelectSeq(m, LAMBDA r : YearOf(r.start_time[1]) = y)) : y \in years}

\* time.Date(year, t.Month(), t.Day(), 0, 0, 0, 0, time.UTC)
YearStart(year, t) == Instant(GoDate(year, MonthOf(t[1]), DayOf(t[1])), 0, 0)

\* time.Date(year, t.Month(), t.Day(), 23, 59, 59, 0, time.UTC)
YearEnd(year, t) == Instant(GoDate(year, MonthOf(t[1]), DayOf(t[1])), 23 * 3600 + 59 * 60 + 59, 0)

\* currentYear := time.Now().Year() in GetYoYComparison
RepoCurrentYear(now) == YearOf(now[1])

\* GetYoYComparison: resultMap, a function from the years that have a row
GetYoYComparison(S, now, farmID, startTime, endTime) ==
    LET currentYear == RepoCurrentYear(now)
        results == UNION {YearRows(S, farmID, YearStart(currentYear - k, startTime),
                                   YearEnd(currentYear - k, endTime)) : k \in 0..2}
    IN  [y \in {r.Year : r \in results} |-> CHOOSE r \in results : r.Year = y]

\* GetSectorBreakdownForFarm: JOIN irrigation_sectors, optional sector filter,
\* GROUP BY sector, ORDER BY sector id
RECURSIVE SectorRowsFrom(_, _)
SectorRowsFrom(m, ids) ==
    IF ids = {} THEN <<>>
    ELSE LET s == CHOOSE x \in ids : \A y \in ids : x <= y
             rows == SelectSeq(m, LAMBDA r : r.irrigation_sector_id = s)
         IN  <<[SectorID |-> s, SectorName |-> SectorName(s),
                TotalRealAmount |-> RInt(SumReal(rows)),
                TotalNominalAmount |-> RInt(SumNominal(rows)),
                AvgEfficiency |-> SqlAvg(Efficiencies(rows))]>>
             \o SectorRowsFrom(m, ids \ {s})

\* GetSectorBreakdownForFarm without the optional sector filter
GetSectorBreakdownForFarmUnfiltered(S, farmID, sectorID, startTime, endTime) ==
    LET m == SelectSeq(Matching(S, farmID, startTime, endTime),
                       LAMBDA r : r.irrigation_sector_id \in Sectors)
    IN  SectorRowsFrom(m, {m[i].irrigation_sector_id : i \in 1..Len(m)})

GetSectorBreakdownForFarm(S, farmID, sectorID, startTime, endTime) ==
    LET m == SelectSeq(Matching(S, farmID, startTime, endTime),
                       LAMBDA r : /\ r.irrigation_sector_id \in Sectors
                                  /\ (IsNil(sectorID) \/ r.irrigation_sector_id = Deref(sectorID)))
    IN  SectorRowsFrom(m, {m[i].irrigation_sector_id : i \in 1..Len(m)})

(***************************************************************************)
(* Analytics orchestrator: service/irrigation_analytics_service.go         *)
(***************************************************************************)
EndOfDay == Instant(0, 23 * 3600 + 59 * 60 + 59, 999999999)

\* the date range of GetAnalytics: startDate and endDate are nullable instants
PeriodStart(now, startDate, endDate) ==
    IF IsNil(startDate) \/ IsNil(endDate)
    THEN Instant(now[1] - 90, 0, 0)
    ELSE Instant(Deref(startDate)[1], 0, 0)

\* PeriodEnd keeping the time of day of endDate
PeriodEndAsSupplied(now, startDate, endDate) ==
    IF IsNil(startDate) \/ IsNil(endDate)
    THEN now
    ELSE Deref(endDate)

PeriodEnd(now, startDate, endDate) ==
    IF IsNil(startDate) \/ IsNil(endDate)
    THEN now
    ELSE Instant(Deref(endDate)[1], EndOfDay[2], EndOfDay[3])

RECURSIVE TotalVolume(_)
TotalVolume(data) ==
    IF data = <<>> THEN RInt(0) ELSE RAdd(Head(data).TotalRealAmount, TotalVolume(Tail(data)))

RECURSIVE TotalEvents(_)
TotalEvents(data) == IF data = <<>> THEN 0 ELSE Head(data).EventCount + TotalEvents(Tail(data))

\* the values a nullable column contributes over the entries
NonNil(column) ==
    LET present == SelectSeq(column, LAMBDA p : ~IsNil(p))
    IN  [i \in 1..Len(present) |-> Deref(present[i])]

EfficiencyRange(min, max) == [Min |-> min, Max |-> max]

\* calculateMetrics with the efficiency sum divided by the number of entries
calculateMetricsMeanOverEntries(data) ==
    IF Len(data) = 0
    THEN [TotalIrrigationVolumeMM |-> RInt(0), TotalIrrigationEvents |-> 0,
          AverageEfficiency |-> Nil, EfficiencyRange |-> Nil]
    ELSE LET efficiencies == NonNil([i \in 1..Len(data) |-> data[i].AvgEfficiency])
             mins == NonNil([i \in 1..Len(data) |-> data[i].MinEfficiency])
             maxs == NonNil([i \in 1..Len(data) |-> data[i].MaxEfficiency])
         IN  [TotalIrrigationVolumeMM |-> TotalVolume(data),
              TotalIrrigationEvents |-> TotalEvents(data),
              AverageEfficiency |->
                  IF Len(efficiencies) > 0
                  THEN Some(RDiv(RSum(efficiencies), RInt(Len(data))))
                  ELSE Nil,
              EfficiencyRange |->
                  IF Len(efficiencies) > 0 /\ mins # <<>> /\ maxs # <<>>
                  THEN Some(EfficiencyRange(RMin(mins), RMax(maxs)))
                  ELSE Nil]

\* calculateMetrics
calculateMetrics(data) ==
    IF Len(data) = 0
    THEN [TotalIrrigationVolumeMM |-> RInt(0), TotalIrrigationEvents |-> 0,
          AverageEfficiency |-> Nil, EfficiencyRange |-> Nil]
    ELSE LET efficiencies == NonNil([i \in 1..Len(data) |-> data[i].AvgEfficiency])
             mins == NonNil([i \in 1..Len(data) |-> data[i].MinEfficiency])
             maxs == NonNil([i \in 1..Len(data) |-> data[i].MaxEfficiency])
         IN  [TotalIrrigationVolumeMM |-> TotalVolume(data),
              TotalIrrigationEvents |-> TotalEvents(data),
              AverageEfficiency |->
                  IF Len(efficiencies) > 0
                  THEN Some(RDiv(RSum(efficiencies), RInt(Len(efficiencies))))
                  ELSE Nil,
              EfficiencyRange |->
                  IF Len(efficiencies) > 0 /\ mins # <<>> /\ maxs # <<>>
                  THEN Some(EfficiencyRange(RMin(mins), RMax(maxs)))
                  ELSE Nil]

\* fmt.Sprintf("<msg> for %s (%d)", yearLabel, year); "" when there is no note
Note(msg, yearLabel, year) == [msg |-> msg, label |-> yearLabel, year |-> year]

NoNote == Note("", "", 0)

IncompleteYoY(msg, yearLabel, year) ==
    [TotalIrrigationVolumeMM |-> Nil, TotalIrrigationEvents |-> Nil,
     AverageEfficiency |-> Nil, EfficiencyRange |-> Nil,
     DataIncomplete |-> TRUE, Note |-> Note(msg, yearLabel, year)]

\* getYoYMetrics that default-zeroes a missing year: the flag is set but the
\* totals are 0 instead of null
getYoYMetricsZeroDefault(yoyData, year, yearLabel) ==
    IF year \notin DOMAIN yoyData
    THEN [IncompleteYoY("No data available", yearLabel, year) EXCEPT
              !.TotalIrrigationVolumeMM = Some(RInt(0)),
              !.TotalIrrigationEvents = Some(0)]
    ELSE LET data == yoyData[year]
         IN  [TotalIrrigationVolumeMM |->
                  IF RPos(data.TotalRealAmount) THEN Some(data.TotalRealAmount) ELSE Nil,
              TotalIrrigationEvents |-> Some(data.EventCount),
              AverageEfficiency |-> data.AvgEfficiency,
              EfficiencyRange |->
                  IF ~IsNil(data.MinEfficiency) /\ ~IsNil(data.MaxEfficiency)
                  THEN Some(EfficiencyRange(Deref(data.MinEfficiency),
                                            Deref(data.MaxEfficiency)))
                  ELSE Nil,
              DataIncomplete |-> FALSE, Note |-> NoNote]

\* getYoYMetrics
getYoYMetrics(yoyData, year, yearLabel) ==
    IF year \notin DOMAIN yoyData
    THEN IncompleteYoY("No data available", yearLabel, year)
    ELSE LET data == yoyData[year]
         IN  IF ~(data.EventCount > 0)
             THEN IncompleteYoY("No events found", yearLabel, year)
             ELSE [TotalIrrigationVolumeMM |->
                       IF RPos(data.TotalRealAmount) THEN Some(data.TotalRealAmount) ELSE Nil,
                   TotalIrrigationEvents |-> Some(data.EventCount),
                   AverageEfficiency |-> data.AvgEfficiency,
                   EfficiencyRange |->
                       IF ~IsNil(data.MinEfficiency) /\ ~IsNil(data.MaxEfficiency)
                       THEN Some(EfficiencyRange(Deref(data.MinEfficiency),
                                                 Deref(data.MaxEfficiency)))
                       ELSE Nil,
                   DataIncomplete |-> FALSE, Note |-> NoNote]

\* ((current - previous) / previous) * 100
PercentChange(current, previous) == RMul(RDiv(RSub(current, previous), previous), RInt(100))

\* calculatePercentageChanges dividing by the current value instead of the
\* previous one
calculatePercentageChangesOverCurrent(current, prevVolume, prevEvents, prevEfficiency) ==
    [VolumeChangePercent |->
         IF RPos(prevVolume)
         THEN Some(PercentChange(prevVolume, current.TotalIrrigationVolumeMM))
         ELSE Nil,
     EventsChangePercent |->
         IF prevEvents > 0
         THEN Some(PercentChange(RInt(prevEvents), RInt(current.TotalIrrigationEvents)))
         ELSE Nil,
     EfficiencyChangePercent |->
         IF /\ ~IsNil(prevEfficiency)
            /\ ~IsNil(current.AverageEfficiency)
            /\ RPos(Deref(prevEfficiency))
         THEN Some(PercentChange(Deref(prevEfficiency), Deref(current.AverageEfficiency)))
         ELSE Nil]

\* calculatePercentageChanges
calculatePercentageChanges(current, prevVolume, prevEvents, prevEfficiency) ==
    [VolumeChangePercent |->
         IF RPos(prevVolume)
         THEN Some(PercentChange(current.TotalIrrigationVolumeMM, prevVolume))
         ELSE Nil,
     EventsChangePercent |->
         IF prevEvents > 0
         THEN Some(PercentChange(RInt(current.TotalIrrigationEvents), RInt(prevEvents)))
         ELSE Nil,
     EfficiencyChangePercent |->
         IF /\ ~IsNil(prevEfficiency)
            /\ ~IsNil(current.AverageEfficiency)
            /\ RPos(Deref(prevEfficiency))
         THEN Some(PercentChange(Deref(current.AverageEfficiency), Deref(prevEfficiency)))
         ELSE Nil]

\* one branch of calculatePeriodComparison
VsPeriod(current, yoY) ==
    IF ~yoY.DataIncomplete /\ ~IsNil(yoY.TotalIrrigationVolumeMM)
    THEN Some(calculatePercentageChanges(current, Deref(yoY.TotalIrrigationVolumeMM),
                                         Deref(yoY.TotalIrrigationEvents),
                                         yoY.AverageEfficiency))
    ELSE Nil

\* calculatePeriodComparison
calculatePeriodComparison(current, yoY1, yoY2) ==
    [VsPeriod1Y |-> VsPeriod(current, yoY1), VsPeriod2Y |-> VsPeriod(current, yoY2)]

\* item.Period.Format("2006-01-02")
FormatDate(day) == <<YearOf(day), MonthOf(day), DayOf(day)>>

\* convertTimeSeriesData
convertTimeSeriesData(data) ==
    [i \in 1..Len(data) |->
        [Date |-> FormatDate(data[i].Period),
         NominalAmountMM |-> data[i].TotalNominalAmount,
         RealAmountMM |-> data[i].TotalRealAmount,
         Efficiency |-> data[i].AvgEfficiency,
         EventCount |-> data[i].EventCount]]

\* convertSectorBreakdownData
convertSectorBreakdownData(data) ==
    [i \in 1..Len(data) |->
        [SectorID |-> data[i].SectorID, SectorName |-> data[i].SectorName,
         TotalVolumeMM |-> data[i].TotalRealAmount,
         AverageEfficiency |-> data[i].AvgEfficiency]]

\* TotalPages by integer division, which rounds down
TotalPagesFloor(totalCount, limit) == totalCount \div limit

\* int(math.Ceil(float64(totalCount) / float64(limit))), limit > 0
TotalPages(totalCount, limit) == (totalCount + limit - 1) \div limit

\* currentYear := time.Now().Year() in GetAnalytics
ServiceCurrentYear(now) == YearOf(now[1])

\* (page-1)*limit
Offset(page, limit) == ToInteger(Offset64(ToInt64(page), limit))

\* the response document GetAnalytics assembles from its three fetches
BuildResponse(farmID, start, end, aggregation, page, limit, fetched, yoyData, sectorBreakdown, now) ==
    LET currentMetrics == calculateMetrics(fetched.results)
        currentYear == ServiceCurrentYear(now)
        yoY1 == getYoYMetrics(yoyData, currentYear - 1, "previous year")
        yoY2 == getYoYMetrics(yoyData, currentYear - 2, "two years ago")
    IN  [FarmID |-> farmID, FarmName |-> "",
         Period |-> [Start |-> start, End |-> end],
         Aggregation |-> aggregation,
         Metrics |-> currentMetrics,
         SamePeriod1Y |-> yoY1,
         SamePeriod2Y |-> yoY2,
         PeriodComparison |-> calculatePeriodComparison(currentMetrics, yoY1, yoY2),
         TimeSeries |->
             [Data |-> convertTimeSeriesData(fetched.results),
              Pagination |-> [Page |-> page, Limit |-> limit,
                              TotalCount |-> fetched.totalCount,
                              TotalPages |-> TotalPages(fetched.totalCount, limit)]],
         SectorBreakdown |-> convertSectorBreakdownData(sectorBreakdown)]

\* what GetAnalytics returns, with the repository methods it invoked
ServiceResult(analytics, err, fetches) == [analytics |-> analytics, err |-> err, calls |-> fetches]

\* ServiceGetAnalytics issuing all three fetches before it looks at their errors
ServiceGetAnalyticsFetchingOn(S, now, f, farmID, startDate, endDate, sectorID, aggregation, page, limit) ==
    LET start == PeriodStart(now, startDate, endDate)
        end == PeriodEnd(now, startDate, endDate)
        yoyData == GetYoYComparison(S, now, farmID, start, end)
        sectorBreakdown == GetSectorBreakdownForFarm(S, farmID, sectorID, start, end)
        all == <<"GetAnalyticsForFarmByDateRange", "GetYoYComparison",
                 "GetSectorBreakdownForFarm">>
    IN  IF f.query \in {"count", "buckets"}
        THEN {ServiceResult(Nil, GetAnalyticsForFarmByDateRangeError(f), all)}
        ELSE IF f.query = "yoy"
        THEN {ServiceResult(Nil, GetYoYComparisonError(f), all)}
        ELSE IF f.query = "sectors"
        THEN {ServiceResult(Nil, GetSectorBreakdownForFarmError(f), all)}
        ELSE {ServiceResult(
                  Some(BuildResponse(farmID, start, end, aggregation, page, limit, fetched,
                                     yoyData, sectorBreakdown, now)),
                  NoError, all) :
                fetched \in GetAnalyticsForFarmByDateRange(S, farmID, start, end, aggregation,
                                                           limit, Offset(page, limit))}

\* IrrigationAnalyticsService.GetAnalytics: the results it may return over
\* store S at time now while the database fails query f (one result per order
\* the bucket query may return)
ServiceGetAnalytics(S, now, f, farmID, startDate, endDate, sectorID, aggregation, page, limit) ==
    LET start == PeriodStart(now, startDate, endDate)
        end == PeriodEnd(now, startDate, endDate)
        yoyData == GetYoYComparison(S, now, farmID, start, end)
        sectorBreakdown == GetSectorBreakdownForFarm(S, farmID, sectorID, start, end)
    IN  IF f.query \in {"count", "buckets"}
        THEN {ServiceResult(Nil, GetAnalyticsForFarmByDateRangeError(f),
                            <<"GetAnalyticsForFarmByDateRange">>)}
        ELSE IF f.query = "yoy"
        THEN {ServiceResult(Nil, GetYoYComparisonError(f),
                            <<"GetAnalyticsForFarmByDateRange", "GetYoYComparison">>)}
        ELSE IF f.query = "sectors"
        THEN {ServiceResult(Nil, GetSectorBreakdownForFarmError(f),
                            <<"GetAnalyticsForFarmByDateRange", "GetYoYComparison",
                              "GetSectorBreakdownForFarm">>)}
        ELSE {ServiceResult(
                  Some(BuildResponse(farmID, start, end, aggregation, page, limit, fetched,
                                     yoyData, sectorBreakdown, now)),
                  NoError,
                  <<"GetAnalyticsForFarmByDateRange", "GetYoYComparison",
                    "GetSectorBreakdownForFarm">>) :
                fetched \in GetAnalyticsForFarmByDateRange(S, farmID, start, end, aggregation,
                                                           limit, Offset(page, limit))}

(***************************************************************************)
(* HTTP boundary: AnalyticsController.GetAnalytics                         *)
(***************************************************************************)
Absent == [kind |-> "absent", n |-> 0]

Num(n) == [kind |-> "num", n |-> n]

All == [kind |-> "all", n |-> 0]

Text == [kind |-> "text", n |-> 0]

DateText(day) == [kind |-> "date", n |-> day]

\* strconv.ParseUint(s, 10, 32) succeeds
ParseUintOk(tok) == tok.kind = "num" /\ tok.n >= 0

\* strconv.Atoi(s) succeeds
AtoiOk(tok) == tok.kind = "num"

\* time.Parse("2006-01-02", s) succeeds
ParseDateOk(tok) == tok.kind = "date"

\* the instant time.Parse("2006-01-02", s) yields: midnight UTC of the day
ParseDate(tok) == Instant(tok.n, 0, 0)

DefaultLimit == 50

AllLimit == 10000

MaxLimit == 1000

\* page, err := strconv.Atoi(pageStr); if err != nil || page < 1 { page = 1 }
ParsePage(tok) ==
    LET t == IF tok.kind = "absent" THEN Num(1) ELSE tok
    IN  IF ~AtoiOk(t) \/ t.n < 1 THEN 1 ELSE t.n

\* ParseLimit without the cap at MaxLimit
ParseLimitUncapped(tok) ==
    LET t == IF tok.kind = "absent" THEN Num(DefaultLimit) ELSE tok
    IN  IF t.kind = "all" THEN AllLimit
        ELSE IF AtoiOk(t) /\ t.n > 0 THEN t.n ELSE DefaultLimit

\* the limit the controller passes on
ParseLimit(tok) ==
    LET t == IF tok.kind = "absent" THEN Num(DefaultLimit) ELSE tok
    IN  IF t.kind = "all" THEN AllLimit
        ELSE IF AtoiOk(t) /\ t.n > 0
             THEN (IF t.n > MaxLimit THEN MaxLimit ELSE t.n)
             ELSE DefaultLimit

\* ctx.DefaultQuery("aggregation", "daily")
ParseAggregation(s) == IF s = "absent" THEN "daily" ELSE s

\* ValidAggregation that also lets "yearly" through
ValidAggregationWithYearly(aggregation) ==
    aggregation \in {"daily", "weekly", "monthly", "yearly"}

ValidAggregation(aggregation) == aggregation \in {"daily", "weekly", "monthly"}

\* StatusCode with && for ||: 206 only when both years are incomplete
StatusCodeBothIncomplete(analytics) ==
    IF analytics.SamePeriod1Y.DataIncomplete /\ analytics.SamePeriod2Y.DataIncomplete
    THEN 206
    ELSE 200

\* the status code chosen from the YoY data availability
StatusCode(analytics) ==
    IF analytics.SamePeriod1Y.DataIncomplete \/ analytics.SamePeriod2Y.DataIncomplete
    THEN 206
    ELSE 200

\* what the handler leaves behind: the response written by ctx.JSON and the
\* methods invoked on the way
Handled(status, error, body, invoked) ==
    [status |-> status, error |-> error, body |-> body, calls |-> invoked]

\* ctx.JSON(status, gin.H{"error": msg}) before the service is called
ErrorResponse(status, msg) == Handled(status, <<msg>>, Nil, <<>>)

\* c.service.GetAnalytics(ctx.Request.Context(), uint(farmID), startDate, ...)
CallService(S, now, f, r) ==
    ServiceGetAnalytics(
        S, now, f, r.farm_id.n,
        IF r.start_date.kind = "absent" THEN Nil ELSE Some(ParseDate(r.start_date)),
        IF r.end_date.kind = "absent" THEN Nil ELSE Some(ParseDate(r.end_date)),
        IF r.sector_id.kind = "absent" THEN Nil ELSE Some(r.sector_id.n),
        ParseAggregation(r.aggregation), ParsePage(r.page), ParseLimit(r.limit))

\* Respond answering a failed fetch as partial content
RespondPartialContent(result) ==
    IF result.err # NoError
    THEN Handled(206, Wrap("failed to fetch analytics", result.err), Nil,
                 <<"GetAnalytics">> \o result.calls)
    ELSE Handled(StatusCode(Deref(result.analytics)), NoError, result.analytics,
                 <<"GetAnalytics">> \o result.calls)

\* the answer of the handler to what the service returned
Respond(result) ==
    IF result.err # NoError
    THEN Handled(500, Wrap("failed to fetch analytics", result.err), Nil,
                 <<"GetAnalytics">> \o result.calls)
    ELSE Handled(StatusCode(Deref(result.analytics)), NoError, result.analytics,
                 <<"GetAnalytics">> \o result.calls)

\* what the handler may do for raw request r over store S at time now while the
\* database fails query f
ControllerGetAnalytics(S, now, f, r) ==
    IF ~ParseUintOk(r.farm_id)
    THEN {ErrorResponse(400, "invalid farm_id format")}
    ELSE IF ~ValidAggregation(ParseAggregation(r.aggregation))
    THEN {ErrorResponse(400, "invalid aggregation type; must be daily, weekly, or monthly")}
    ELSE IF r.start_date.kind # "absent" /\ ~ParseDateOk(r.start_date)
    THEN {ErrorResponse(400, "invalid start_date format; use YYYY-MM-DD")}
    ELSE IF r.end_date.kind # "absent" /\ ~ParseDateOk(r.end_date)
    THEN {ErrorResponse(400, "invalid end_date format; use YYYY-MM-DD")}
    ELSE IF r.sector_id.kind # "absent" /\ ~ParseUintOk(r.sector_id)
    THEN {ErrorResponse(400, "invalid sector_id format")}
    ELSE {Respond(result) : result \in CallService(S, now, f, r)}

(***************************************************************************)
(* Requests the model sends                                                *)
(***************************************************************************)
\* farm 1 is seeded, farm 9 is not, Text is not a number
FarmInputs == {Num(1), Num(9), Text}

\* <<start_date, end_date>>
DateInputs ==
    {<<Absent, Absent>>,
     <<DateText(GoDate(2025, 6, 1)), DateText(GoDate(2025, 6, 30))>>,
     <<DateText(GoDate(2024, 12, 30)), DateText(GoDate(2025, 1, 1))>>,
     <<Text, DateText(GoDate(2025, 6, 30))>>,
     <<DateText(GoDate(2025, 6, 1)), Text>>}

\* well-formed date pairs at the edges of the calendar: an end before the
\* start, and a range that ends on the leap day
EdgeDateInputs ==
    {<<DateText(GoDate(2025, 6, 30)), DateText(GoDate(2025, 6, 1))>>,
     <<DateText(GoDate(2024, 2, 1)), DateText(GoDate(2024, 2, 29))>>}

AggregationInputs == {"absent", "weekly", "monthly", "yearly"}

PageInputs == {Num(0), Num(2), Text}

LimitInputs == {Absent, All, Num(1), Num(0), Num(2000), Text}

\* sector 1 belongs to farm 1, sector 3 to farm 2
SectorInputs == {Absent, Num(1), Num(3), Text}

Request(f, d, s, a, p, l) ==
    [farm_id |-> f, start_date |-> d[1], end_date |-> d[2], sector_id |-> s,
     aggregation |-> a, page |-> p, limit |-> l]

\* well-formed requests for farm 1 without sector filter in every combination
\* of range, granularity, page and limit
OrdinaryRequests ==
    {Request(Num(1), d, Absent, a, p, l) :
        d \in {x \in DateInputs : x[1] # Text /\ x[2] # Text},
        a \in AggregationInputs \ {"yearly"},
        p \in {Num(0), Num(2)},
        l \in {Absent, All, Num(1)}}

\* June 2025 of farm 1 with every other parameter left out
BaseRequest ==
    Request(Num(1), <<DateText(GoDate(2025, 6, 1)), DateText(GoDate(2025, 6, 30))>>,
            Absent, "absent", Absent, Absent)

\* BaseRequest with one parameter replaced by each of its inputs
VariantRequests ==
    {[BaseRequest EXCEPT !.farm_id = f] : f \in FarmInputs}
    \cup {[BaseRequest EXCEPT !.start_date = d[1], !.end_date = d[2]] :
              d \in DateInputs \cup EdgeDateInputs}
    \cup {[BaseRequest EXCEPT !.sector_id = x] : x \in SectorInputs}
    \cup {[BaseRequest EXCEPT !.aggregation = a] : a \in AggregationInputs}
    \cup {[BaseRequest EXCEPT !.page = x] : x \in PageInputs}
    \cup {[BaseRequest EXCEPT !.limit = l] : l \in LimitInputs}

Requests == OrdinaryRequests \cup VariantRequests

NoRequest ==
    [farm_id |-> Absent, start_date |-> Absent, end_date |-> Absent, sector_id |-> Absent,
     aggregation |-> "absent", page |-> Absent, limit |-> Absent]

NoResponse == [status |-> 0, error |-> NoError, body |-> Nil]

(***************************************************************************)
(* Requests handled concurrently: each runs GetAnalytics in a goroutine of  *)
(* its own, query by query                                                 *)
(***************************************************************************)
Handlers == {1, 2}

\* the locals of an invocation that has not started
Idle ==
    [pc |-> "idle", req |-> NoRequest, totalCount |-> 0, results |-> <<>>, yoyData |-> <<>>,
     sectorBreakdown |-> <<>>, resp |-> NoResponse]

\* the arguments the handler passes to the service for raw request r
Arguments(now, r) ==
    LET startDate == IF r.start_date.kind = "absent" THEN Nil ELSE Some(ParseDate(r.start_date))
        endDate == IF r.end_date.kind = "absent" THEN Nil ELSE Some(ParseDate(r.end_date))
    IN  [farmID |-> r.farm_id.n,
         start |-> PeriodStart(now, startDate, endDate),
         end |-> PeriodEnd(now, startDate, endDate),
         sectorID |-> IF r.sector_id.kind = "absent" THEN Nil ELSE Some(r.sector_id.n),
         aggregation |-> ParseAggregation(r.aggregation),
         page |-> ParsePage(r.page),
         limit |-> ParseLimit(r.limit)]

\* Assign with the variable held in one place for all invocations
AssignShared(h, variable, value) ==
    [g \in Handlers |-> [inflight[g] EXCEPT ![variable] = value]]

\* assignment to a local variable of invocation h
Assign(h, variable, value) ==
    [inflight EXCEPT ![h][variable] = value]

\* the rows concurrent writers insert and delete
ConcurrentRecordInputs ==
    {IrrigationData(1, 1, Instant(GoDate(2025, 6, 10), Noon, 0), 2, 1),
     IrrigationData(1, 1, Instant(GoDate(2025, 1, 1), Noon, 0), 4, 4)}

\* the requests sent concurrently: June 2025, the turn of the year 2024/25,
\* and a request the boundary rejects
ConcurrentRequests ==
    {BaseRequest,
     [BaseRequest EXCEPT !.start_date = DateText(GoDate(2024, 12, 30)),
                         !.end_date = DateText(GoDate(2025, 1, 1))],
     [BaseRequest EXCEPT !.farm_id = Text]}

\* the pages strconv.Atoi can yield, from 1 to the largest int
PageValues ==
    {<<1, 0, 0, 0>>, <<2, 0, 0, 0>>, <<1, 1, 0, 0>>, <<0, 32768, 0, 0>>,
     <<34918, 23907, 18140, 3>>, <<34919, 23907, 18140, 3>>, <<1, 0, 0, 8192>>,
     <<65535, 65535, 65535, 32767>>}

\* limits the boundary passes on: 1 .. MaxLimit, and AllLimit
LimitValues == {1, 2, 3, 8, DefaultLimit, 999, MaxLimit, AllLimit}

NoArithmetic == [page |-> <<>>, limit |-> 0, offset |-> <<>>]

(***************************************************************************)
(* Actions                                                                 *)
(***************************************************************************)
Init ==
    /\ store = EmptyBag
    /\ clock = 1
    /\ pc = "idle"
    /\ req = NoRequest
    /\ fault = NoFault
    /\ calls = <<>>
    /\ resp = NoResponse
    /\ inflight = [h \in Handlers |-> Idle]
    /\ arith = NoArithmetic

\* IrrigationDataRepository.Create: insert one row
Create(data) ==
    /\ pc = "idle"
    /\ BagCardinality(store) < MaxRecords
    /\ data.farm_id \in Farms
    /\ data.irrigation_sector_id \in Sectors
    /\ store' = store (+) SetToBag({data})
    /\ UNCHANGED <<clock, pc, req, fault, calls, resp, inflight, arith>>

\* time passes: time.Now() returns the next instant
Tick ==
    /\ pc = "idle"
    /\ clock < Len(ClockInstants)
    /\ clock' = clock + 1
    /\ UNCHANGED <<store, pc, req, fault, calls, resp, inflight, arith>>

\* GET /v1/farms/:farm_id/irrigation/analytics: the handler runs to its ctx.JSON
GetAnalytics(r, f) ==
    /\ pc = "idle"
    /\ \E w \in ControllerGetAnalytics(store, Now, f, r) :
           /\ resp' = [status |-> w.status, error |-> w.error, body |-> w.body]
           /\ calls' = w.calls
    /\ req' = r
    /\ fault' = f
    /\ pc' = "done"
    /\ UNCHANGED <<store, clock, inflight, arith>>

\* the handler has returned; the server is ready for the next request
Return ==
    /\ pc = "done"
    /\ pc' = "idle"
    /\ req' = NoRequest
    /\ fault' = NoFault
    /\ calls' = <<>>
    /\ resp' = NoResponse
    /\ UNCHANGED <<store, clock, inflight, arith>>

Next ==
    \/ \E data \in RecordInputs : Create(data)
    \/ Tick
    \/ \E r \in Requests, f \in Faults : GetAnalytics(r, f)
    \/ Return

Spec == Init /\ [][Next]_vars

\* the request passes every validation of the boundary
ValidRequest(r) ==
    /\ ParseUintOk(r.farm_id)
    /\ ValidAggregation(ParseAggregation(r.aggregation))
    /\ r.start_date.kind \in {"absent", "date"}
    /\ r.end_date.kind \in {"absent", "date"}
    /\ (r.sector_id.kind = "absent" \/ ParseUintOk(r.sector_id))

OffsetInit ==
    /\ store = EmptyBag
    /\ clock = 1
    /\ pc = "idle"
    /\ req = NoRequest
    /\ fault = NoFault
    /\ calls = <<>>
    /\ resp = NoResponse
    /\ inflight = [h \in Handlers |-> Idle]
    /\ arith \in {[page |-> p, limit |-> l, offset |-> <<>>] : p \in PageValues, l \in LimitValues}

\* the service computes the offset it passes to the bucket fetch
ComputeOffset ==
    /\ arith.offset = <<>>
    /\ arith' = [arith EXCEPT !.offset = Offset64(arith.page, arith.limit)]
    /\ UNCHANGED <<store, clock, pc, req, fault, calls, resp, inflight>>

OffsetNext == ComputeOffset

OffsetSpec == OffsetInit /\ [][OffsetNext]_vars

\* the rest of the server's state, which concurrent handling leaves alone
Sequential == <<clock, pc, req, fault, calls, resp, arith>>

\* the handler of invocation h receives r: a request that fails validation is
\* answered at once, any other goes on to the service
Receive(h, r) ==
    /\ inflight[h].pc = "idle"
    /\ inflight' =
           [inflight EXCEPT ![h] =
               IF ValidRequest(r)
               THEN [Idle EXCEPT !.pc = "count", !.req = r]
               ELSE LET w == CHOOSE w \in ControllerGetAnalytics(store, Now, NoFault, r) : TRUE
                    IN  [Idle EXCEPT !.pc = "done", !.req = r,
                                     !.resp = [status |-> w.status, error |-> w.error,
                                               body |-> w.body]]]
    /\ UNCHANGED <<store, Sequential>>

\* countQuery.Count(&totalCount)
CountRows(h) ==
    /\ inflight[h].pc = "count"
    /\ LET a == Arguments(Now, inflight[h].req)
       IN  inflight' = [Assign(h, "totalCount", CountQuery(store, a.farmID, a.start, a.end))
                           EXCEPT ![h].pc = "select"]
    /\ UNCHANGED <<store, Sequential>>

\* the bucket query: Select ... Group ... Order ... Limit ... Offset ... Scan(&results)
SelectBuckets(h) ==
    /\ inflight[h].pc = "select"
    /\ LET a == Arguments(Now, inflight[h].req)
       IN  \E q \in OrderByPeriod(BucketRows(store, a.farmID, a.start, a.end, a.aggregation)) :
               inflight' = [Assign(h, "results", LimitOffset(q, a.limit, Offset(a.page, a.limit)))
                               EXCEPT ![h].pc = "yoy"]
    /\ UNCHANGED <<store, Sequential>>

\* yoyData, err := s.repo.GetYoYComparison(...)
FetchYoY(h) ==
    /\ inflight[h].pc = "yoy"
    /\ LET a == Arguments(Now, inflight[h].req)
       IN  inflight' = [Assign(h, "yoyData", GetYoYComparison(store, Now, a.farmID, a.start, a.end))
                           EXCEPT ![h].pc = "sectors"]
    /\ UNCHANGED <<store, Sequential>>

\* sectorBreakdown, err := s.repo.GetSectorBreakdownForFarm(...)
FetchSectors(h) ==
    /\ inflight[h].pc = "sectors"
    /\ LET a == Arguments(Now, inflight[h].req)
       IN  inflight' = [Assign(h, "sectorBreakdown",
                               GetSectorBreakdownForFarm(store, a.farmID, a.sectorID, a.start, a.end))
                           EXCEPT ![h].pc = "assemble"]
    /\ UNCHANGED <<store, Sequential>>

\* the reduction and assembly of the response from the fetched data, and the
\* handler's ctx.JSON
Assemble(h) ==
    /\ inflight[h].pc = "assemble"
    /\ LET a == Arguments(Now, inflight[h].req)
           l == inflight[h]
           fetched == [results |-> l.results, totalCount |-> l.totalCount]
           w == Respond(ServiceResult(
                    Some(BuildResponse(a.farmID, a.start, a.end, a.aggregation, a.page, a.limit,
                                       fetched, l.yoyData, l.sectorBreakdown, Now)),
                    NoError,
                    <<"GetAnalyticsForFarmByDateRange", "GetYoYComparison",
                      "GetSectorBreakdownForFarm">>))
       IN  inflight' = [inflight EXCEPT ![h].pc = "done",
                                        ![h].resp = [status |-> w.status, error |-> w.error,
                                                     body |-> w.body]]
    /\ UNCHANGED <<store, Sequential>>

\* the response of invocation h has been sent
Complete(h) ==
    /\ inflight[h].pc = "done"
    /\ inflight' = [inflight EXCEPT ![h] = Idle]
    /\ UNCHANGED <<store, Sequential>>

\* IrrigationDataRepository.Create while no request is being handled
Seed(data) ==
    /\ \A h \in Handlers : inflight[h].pc = "idle"
    /\ BagCardinality(store) < MaxRecords
    /\ store' = store (+) SetToBag({data})
    /\ UNCHANGED <<Sequential, inflight>>

\* IrrigationDataRepository.Create by a concurrent writer
Insert(data) ==
    /\ BagCardinality(store) < MaxRecords
    /\ store' = store (+) SetToBag({data})
    /\ UNCHANGED <<Sequential, inflight>>

\* IrrigationDataRepository.Delete by a concurrent writer
Delete(data) ==
    /\ BagIn(data, store)
    /\ store' = store (-) SetToBag({data})
    /\ UNCHANGED <<Sequential, inflight>>

\* the steps of invocation h
Handle(h) ==
    \/ \E r \in ConcurrentRequests : Receive(h, r)
    \/ CountRows(h)
    \/ SelectBuckets(h)
    \/ FetchYoY(h)
    \/ FetchSectors(h)
    \/ Assemble(h)
    \/ Complete(h)

\* requests handled concurrently over a store that changes only between them
ConcurrentNext ==
    \/ \E data \in ConcurrentRecordInputs : Seed(data)
    \/ \E h \in Handlers : Handle(h)

ConcurrentSpec == Init /\ [][ConcurrentNext]_vars

\* one request handled while writers insert and delete rows
RacingNext ==
    \/ \E data \in ConcurrentRecordInputs : Insert(data)
    \/ \E data \in ConcurrentRecordInputs : Delete(data)
    \/ Handle(1)

RacingSpec == Init /\ [][RacingNext]_vars

(***************************************************************************)
(* Properties                                                              *)
(***************************************************************************)
\* the handler has answered req with an analytics document
Answered == pc = "done" /\ ~IsNil(resp.body)

Body == Deref(resp.body)

YoYOf(a, k) == IF k = 1 THEN a.SamePeriod1Y ELSE a.SamePeriod2Y

VsOf(a, k) == IF k = 1 THEN a.PeriodComparison.VsPeriod1Y ELSE a.PeriodComparison.VsPeriod2Y

SpanRecords(S, farmID, year, startDay, endDay) ==
    SelectSeq(BagSeq(S), LAMBDA r :
        /\ r.farm_id = farmID
        /\ GoDate(year, MonthOf(startDay), DayOf(startDay)) <= r.start_time[1]
        /\ r.start_time[1] <= GoDate(year, MonthOf(endDay), DayOf(endDay)))

\* C2: for explicit start_date and end_date in calendar year Y, same_period_-k
\* is derived from the farm's rows of the requested span placed in year Y-k,
\* whatever the clock reads: it is incomplete exactly when that span has no
\* row, and otherwise counts that span's events.
C2_YoYYearsFollowRequest ==
    Answered /\ req.start_date.kind = "date" /\ req.end_date.kind = "date"
             /\ YearOf(req.start_date.n) = YearOf(req.end_date.n) =>
        \A k \in {1, 2} :
            LET rows == SpanRecords(store, req.farm_id.n, YearOf(req.start_date.n) - k,
                                    req.start_date.n, req.end_date.n)
            IN  /\ YoYOf(Body, k).DataIncomplete = (rows = <<>>)
                /\ rows # <<>> => YoYOf(Body, k).TotalIrrigationEvents = Some(Len(rows))

\* C3: the current-period metrics are the sum of real_amount and the count of
\* all the farm's rows in the normalized [start, end], for every page and limit.
C3_MetricsCoverWholePeriod ==
    Answered =>
        LET rows == Matching(store, Body.FarmID, Body.Period.Start, Body.Period.End)
        IN  /\ Body.Metrics.TotalIrrigationVolumeMM = RInt(SumReal(rows))
            /\ Body.Metrics.TotalIrrigationEvents = Len(rows)

\* C4: pagination.total_count is the number of distinct time buckets of the
\* farm's rows in [start, end] at the requested granularity.
C4_TotalCountIsBucketCount ==
    Answered =>
        LET rows == Matching(store, Body.FarmID, Body.Period.Start, Body.Period.End)
        IN  Body.TimeSeries.Pagination.TotalCount =
                Cardinality({DateTrunc(Body.Aggregation, rows[i].start_time) :
                               i \in 1..Len(rows)})

\* C5: data_incomplete = true implies that volume, events, average efficiency
\* and efficiency range of that comparison are null and that the matching
\* period_comparison.vs_same_period_-k object is absent.
C5_IncompleteMeansNullAndAbsent ==
    Answered =>
        \A k \in {1, 2} :
            YoYOf(Body, k).DataIncomplete =>
                /\ IsNil(YoYOf(Body, k).TotalIrrigationVolumeMM)
                /\ IsNil(YoYOf(Body, k).TotalIrrigationEvents)
                /\ IsNil(YoYOf(Body, k).AverageEfficiency)
                /\ IsNil(YoYOf(Body, k).EfficiencyRange)
                /\ IsNil(VsOf(Body, k))

\* C5 witness: the previous year is complete and compared, the year before it
\* is incomplete
C5_Witness ==
    /\ Answered
    /\ Body.SamePeriod2Y.DataIncomplete
    /\ ~Body.SamePeriod1Y.DataIncomplete
    /\ ~IsNil(Body.PeriodComparison.VsPeriod1Y)

\* x is ((current - previous) / previous) * 100, stated without the division
IsPercentChange(x, current, previous) ==
    RMul(x, previous) = RMul(RSub(current, previous), RInt(100))

\* C6: in every percentage-change object that is present, each change is
\* ((current - previous) / previous) * 100 when its previous value is > 0 (for
\* efficiency only when both averages are present) and null otherwise.
C6_PercentageChanges ==
    Answered =>
        \A k \in {1, 2} :
            ~IsNil(VsOf(Body, k)) =>
                LET vs == Deref(VsOf(Body, k))
                    prev == YoYOf(Body, k)
                    cur == Body.Metrics
                    volOk == ~IsNil(prev.TotalIrrigationVolumeMM)
                             /\ RPos(Deref(prev.TotalIrrigationVolumeMM))
                    evOk == ~IsNil(prev.TotalIrrigationEvents)
                            /\ Deref(prev.TotalIrrigationEvents) > 0
                    effOk == /\ ~IsNil(prev.AverageEfficiency)
                             /\ ~IsNil(cur.AverageEfficiency)
                             /\ RPos(Deref(prev.AverageEfficiency))
                IN  /\ IsNil(vs.VolumeChangePercent) = ~volOk
                    /\ volOk => IsPercentChange(Deref(vs.VolumeChangePercent),
                                                cur.TotalIrrigationVolumeMM,
                                                Deref(prev.TotalIrrigationVolumeMM))
                    /\ IsNil(vs.EventsChangePercent) = ~evOk
                    /\ evOk => IsPercentChange(Deref(vs.EventsChangePercent),
                                               RInt(cur.TotalIrrigationEvents),
                                               RInt(Deref(prev.TotalIrrigationEvents)))
                    /\ IsNil(vs.EfficiencyChangePercent) = ~effOk
                    /\ effOk => IsPercentChange(Deref(vs.EfficiencyChangePercent),
                                                Deref(cur.AverageEfficiency),
                                                Deref(prev.AverageEfficiency))

\* C6 witness: volume rose from 1 to 3 (+200 %) and the efficiency change is
\* null because the current period has no efficiency
C6_Witness ==
    /\ Answered
    /\ ~IsNil(Body.PeriodComparison.VsPeriod1Y)
    /\ Deref(Body.PeriodComparison.VsPeriod1Y).VolumeChangePercent = Some(RInt(200))
    /\ IsNil(Deref(Body.PeriodComparison.VsPeriod1Y).EfficiencyChangePercent)

\* the time_series.data a request for every bucket (limit=all, page 1) may get
WholeSeries(S, now, r) ==
    {Deref(w.body).TimeSeries.Data :
        w \in ControllerGetAnalytics(S, now, NoFault, [r EXCEPT !.limit = All, !.page = Num(1)])}

RECURSIVE SeriesVolume(_)
SeriesVolume(data) ==
    IF data = <<>> THEN RInt(0) ELSE RAdd(Head(data).RealAmountMM, SeriesVolume(Tail(data)))

\* C7: for a fixed farm and date range over an unchanged store, the metrics
\* volume is the same for daily, weekly and monthly aggregation and equals the
\* sum of the real amounts of all buckets of the range at each granularity.
C7_VolumeSameAtEveryGranularity ==
    Answered =>
        \A a \in {"daily", "weekly", "monthly"} :
            /\ \A w \in ControllerGetAnalytics(store, Now, NoFault, [req EXCEPT !.aggregation = a]) :
                   Deref(w.body).Metrics.TotalIrrigationVolumeMM
                       = Body.Metrics.TotalIrrigationVolumeMM
            /\ \A data \in WholeSeries(store, Now, [req EXCEPT !.aggregation = a]) :
                   SeriesVolume(data) = Body.Metrics.TotalIrrigationVolumeMM

RECURSIVE PagesFrom(_, _, _, _, _, _)
\* the concatenations of time_series.data of pages p..last requested at limit n
PagesFrom(S, now, r, n, p, last) ==
    IF p > last THEN {<<>>}
    ELSE {Deref(w.body).TimeSeries.Data \o rest :
            w \in ControllerGetAnalytics(S, now, NoFault, [r EXCEPT !.limit = Num(n), !.page = Num(p)]),
            rest \in PagesFrom(S, now, r, n, p + 1, last)}

\* C8: for a fixed farm, range and granularity over an unchanged store, the
\* pages 1..total_pages requested at limit=N concatenate to the bucket sequence
\* of one request with limit=all, for every N <= total_count.
C8_PagesConcatenateToWhole ==
    Answered =>
        \A n \in 1..Body.TimeSeries.Pagination.TotalCount :
            \A whole \in WholeSeries(store, Now, req) :
                \A pages \in PagesFrom(store, Now, req, n, 1,
                                       TotalPages(Body.TimeSeries.Pagination.TotalCount, n)) :
                    pages = whole

\* C9: limit >= 1 and total_pages = ceil(total_count / limit); page and limit
\* of the pagination block are the normalized request values.
C9_PaginationMetadata ==
    Answered =>
        LET p == Body.TimeSeries.Pagination
        IN  /\ p.Limit >= 1
            /\ p.TotalPages * p.Limit >= p.TotalCount
            /\ (p.TotalPages - 1) * p.Limit < p.TotalCount
            /\ p.Page = IF req.page.kind = "num" /\ req.page.n >= 1 THEN req.page.n ELSE 1
            /\ p.Limit = CASE req.limit.kind = "all" -> 10000
                           [] req.limit.kind = "num" /\ req.limit.n > 1000 -> 1000
                           [] req.limit.kind = "num" /\ req.limit.n \in 1..1000 -> req.limit.n
                           [] OTHER -> 50

\* C9 witness: page 2 of two rows at limit 1
C9_Witness ==
    /\ Answered
    /\ Body.TimeSeries.Pagination
           = [Page |-> 2, Limit |-> 1, TotalCount |-> 2, TotalPages |-> 2]
    /\ Len(Body.TimeSeries.Data) = 1

\* C10: a valid request whose farm_id identifies no existing farm is answered
\* with HTTP 404.
C10_UnknownFarmIs404 ==
    pc = "done" /\ ValidRequest(req) /\ fault = NoFault /\ req.farm_id.n \notin Farms =>
        resp.status = 404

\* C11: a valid request over a range in which the farm has no row is answered
\* 200 with 0 events, volume 0, null average efficiency and efficiency range,
\* an empty time_series.data and an empty sector_breakdown.
C11_EmptyRangeIs200 ==
    Answered /\ Matching(store, Body.FarmID, Body.Period.Start, Body.Period.End) = <<>> =>
        /\ resp.status = 200
        /\ Body.Metrics.TotalIrrigationEvents = 0
        /\ Body.Metrics.TotalIrrigationVolumeMM = RInt(0)
        /\ IsNil(Body.Metrics.AverageEfficiency)
        /\ IsNil(Body.Metrics.EfficiencyRange)
        /\ Body.TimeSeries.Data = <<>>
        /\ Body.SectorBreakdown = <<>>

\* the error the repository returns when the database fails query f
RepositoryError(f) ==
    CASE f.query \in {"count", "buckets"} -> GetAnalyticsForFarmByDateRangeError(f)
      [] f.query = "yoy" -> GetYoYComparisonError(f)
      [] f.query = "sectors" -> GetSectorBreakdownForFarmError(f)

\* no method occurs twice in the sequence of invocations
NoRepeat(q) == \A i, j \in 1..Len(q) : q[i] = q[j] => i = j

\* C12: when one of the three repository fetches returns an error, the service
\* returns that error (errors.Is) and no response document, the handler answers
\* 500 without an analytics body, and no method was invoked twice.
C12_FetchErrorAborts ==
    pc = "done" /\ ValidRequest(req) /\ fault # NoFault =>
        /\ \A result \in CallService(store, Now, fault, req) :
               /\ IsNil(result.analytics)
               /\ ErrorsIs(result.err, RepositoryError(fault))
        /\ resp.status = 500
        /\ IsNil(resp.body)
        /\ NoRepeat(calls)

\* C12 witness: the year-over-year query failed after the bucket fetch
C12_Witness ==
    /\ pc = "done"
    /\ fault.query = "yoy"
    /\ resp.status = 500
    /\ calls = <<"GetAnalytics", "GetAnalyticsForFarmByDateRange", "GetYoYComparison">>

\* C13: a request with a malformed start_date or end_date, an aggregation
\* outside daily, weekly, monthly, or a non-numeric farm_id or sector_id is
\* answered 400 with an error message, and neither the service nor any fetch
\* is invoked for it.
C13_InvalidInputIs400 ==
    pc = "done" /\ (\/ req.start_date.kind = "text"
                    \/ req.end_date.kind = "text"
                    \/ req.aggregation \notin {"absent", "daily", "weekly", "monthly"}
                    \/ req.farm_id.kind # "num"
                    \/ req.sector_id.kind \notin {"absent", "num"}) =>
        /\ resp.status = 400
        /\ resp.error # NoError
        /\ IsNil(resp.body)
        /\ calls = <<>>

\* C13 witness: a request refused for its sector_id, the last of the checks,
\* while the database would have failed the first query
C13_Witness ==
    /\ pc = "done"
    /\ req.sector_id = Text
    /\ fault.query = "count"
    /\ resp.status = 400
    /\ resp.error = <<"invalid sector_id format">>
    /\ calls = <<>>

\* the page the claim C14 expects for a raw page value
ExpectedPage(tok) == IF tok.kind = "num" /\ tok.n >= 1 THEN tok.n ELSE 1

\* the limit the claim C14 expects for a raw limit value
ExpectedLimit(tok) ==
    CASE tok.kind = "all" -> 10000
      [] tok.kind = "num" /\ tok.n > 1000 -> 1000
      [] tok.kind = "num" /\ tok.n \in 1..1000 -> tok.n
      [] OTHER -> 50

YearLabel(k) == IF k = 1 THEN "previous year" ELSE "two years ago"

\* C15: a comparison is incomplete (flag set, note naming the year and the
\* label) exactly when its year is absent from the year-over-year mapping or
\* present with event count 0; otherwise it is complete with total volume and
\* total events populated, average efficiency when present and efficiency
\* range when both min and max are present.
C15_YoYMetrics ==
    Answered =>
        \A k \in {1, 2} :
            LET yoyData == GetYoYComparison(store, Now, Body.FarmID, Body.Period.Start,
                                            Body.Period.End)
                year == ServiceCurrentYear(Now) - k
                incomplete == year \notin DOMAIN yoyData \/ yoyData[year].EventCount = 0
                c == YoYOf(Body, k)
            IN  /\ c.DataIncomplete = incomplete
                /\ incomplete => c.Note.year = year /\ c.Note.label = YearLabel(k)
                /\ ~incomplete =>
                       /\ c.TotalIrrigationVolumeMM = Some(yoyData[year].TotalRealAmount)
                       /\ c.TotalIrrigationEvents = Some(yoyData[year].EventCount)
                       /\ c.AverageEfficiency = yoyData[year].AvgEfficiency
                       /\ IsNil(c.EfficiencyRange)
                              = (IsNil(yoyData[year].MinEfficiency)
                                 \/ IsNil(yoyData[year].MaxEfficiency))

\* the farm's rows in the period of the response that fall in the bucket
\* beginning on day d in calendar year y
RowsOfBucket(d, y) ==
    SelectSeq(Matching(store, Body.FarmID, Body.Period.Start, Body.Period.End),
              LAMBDA r : /\ DateTrunc(Body.Aggregation, r.start_time) = d
                         /\ YearOf(r.start_time[1]) = y)

\* the real/nominal ratios of the rows with nominal_amount > 0
EligibleRatios(rows) ==
    LET eligible == SelectSeq(rows, LAMBDA r : ~(r.nominal_amount <= 0))
    IN  [i \in 1..Len(eligible) |-> Rat(eligible[i].real_amount, eligible[i].nominal_amount)]

\* C16: in every bucket, rows with nominal_amount <= 0 are left out of the
\* average, min and max efficiency but count toward the real and nominal sums
\* and the event count; a bucket with no other row has null efficiency fields
\* and numeric count and sums.
C16_NoNominalExcludedFromEfficiency ==
    Answered =>
        /\ \A i \in 1..Len(Body.TimeSeries.Data) :
               LET e == Body.TimeSeries.Data[i]
                   d == GoDate(e.Date[1], e.Date[2], e.Date[3])
               IN  \E y \in {e.Date[1], e.Date[1] + 1} :
                       LET rows == RowsOfBucket(d, y)
                           ratios == EligibleRatios(rows)
                       IN  /\ rows # <<>>
                           /\ e.EventCount = Len(rows)
                           /\ e.RealAmountMM = RInt(SumReal(rows))
                           /\ e.NominalAmountMM = RInt(SumNominal(rows))
                           /\ IsNil(e.Efficiency) = (ratios = <<>>)
                           /\ ratios # <<>> =>
                                  RMul(Deref(e.Efficiency), RInt(Len(ratios))) = RSum(ratios)
        /\ \A b \in BucketRows(store, Body.FarmID, Body.Period.Start, Body.Period.End,
                                Body.Aggregation) :
               LET ratios == EligibleRatios(RowsOfBucket(b.Period, b.Year))
                   values == {ratios[i] : i \in 1..Len(ratios)}
               IN  /\ IsNil(b.MinEfficiency) = (ratios = <<>>)
                   /\ IsNil(b.MaxEfficiency) = (ratios = <<>>)
                   /\ ratios # <<>> =>
                          /\ Deref(b.MinEfficiency) \in values
                          /\ Deref(b.MaxEfficiency) \in values
                          /\ \A v \in values : /\ ~RLess(v, Deref(b.MinEfficiency))
                                                  /\ ~RLess(Deref(b.MaxEfficiency), v)

\* C16 witness: a bucket of two events, one of them without nominal amount,
\* whose efficiency is that of the other event alone
C16_Witness ==
    /\ Answered
    /\ Len(Body.TimeSeries.Data) = 1
    /\ Body.TimeSeries.Data[1].EventCount = 2
    /\ Body.TimeSeries.Data[1].NominalAmountMM = RInt(2)
    /\ Body.TimeSeries.Data[1].RealAmountMM = RInt(4)
    /\ Body.TimeSeries.Data[1].Efficiency = Some(Rat(1, 2))

\* C17: the efficiency of every time_series entry is its real_amount_mm divided
\* by its nominal_amount_mm, and null when the nominal amount is 0.
C17_EntryEfficiencyIsRealOverNominal ==
    Answered =>
        \A i \in 1..Len(Body.TimeSeries.Data) :
            LET e == Body.TimeSeries.Data[i]
            IN  IF e.NominalAmountMM = RInt(0)
                THEN IsNil(e.Efficiency)
                ELSE e.Efficiency = Some(RDiv(e.RealAmountMM, e.NominalAmountMM))

\* C18: sector_breakdown lists, in ascending sector id order, exactly the
\* sectors with at least one row of the farm in [start, end]; with sector_id
\* given it holds at most one entry, that of the requested sector.
C18_SectorBreakdown ==
    Answered =>
        LET rows == Matching(store, Body.FarmID, Body.Period.Start, Body.Period.End)
            withRows == {rows[i].irrigation_sector_id : i \in 1..Len(rows)}
            listed == IF req.sector_id.kind = "num"
                      THEN withRows \cap {req.sector_id.n}
                      ELSE withRows
            sb == Body.SectorBreakdown
        IN  /\ {sb[i].SectorID : i \in 1..Len(sb)} = listed
            /\ \A i, j \in 1..Len(sb) : i < j => sb[i].SectorID < sb[j].SectorID
            /\ req.sector_id.kind = "num" =>
                   /\ Len(sb) <= 1
                   /\ \A i \in 1..Len(sb) : sb[i].SectorID = req.sector_id.n

\* C18 witness: two sectors of the farm have rows and sector_id=1 lists the
\* first alone
C18_Witness ==
    /\ Answered
    /\ req.sector_id = Num(1)
    /\ Len(Body.SectorBreakdown) = 1
    /\ Body.SectorBreakdown[1].SectorID = 1
    /\ \E r \in DOMAIN store :
           /\ r.farm_id = 1
           /\ r.irrigation_sector_id = 2
           /\ TimeLeq(Body.Period.Start, r.start_time)
           /\ TimeLeq(r.start_time, Body.Period.End)

\* the parts of an answer the sector filter must leave alone
WithoutBreakdown(w) ==
    [status |-> w.status, Metrics |-> Deref(w.body).Metrics,
     TimeSeries |-> Deref(w.body).TimeSeries,
     SamePeriod1Y |-> Deref(w.body).SamePeriod1Y,
     SamePeriod2Y |-> Deref(w.body).SamePeriod2Y,
     PeriodComparison |-> Deref(w.body).PeriodComparison]

RowsOnDays(S, farmID, startDay, endDay) ==
    SelectSeq(BagSeq(S), LAMBDA r : /\ r.farm_id = farmID
                                    /\ startDay <= r.start_time[1]
                                    /\ r.start_time[1] <= endDay)

RECURSIVE BreakdownVolume(_)
BreakdownVolume(sb) ==
    IF sb = <<>> THEN RInt(0) ELSE RAdd(Head(sb).TotalVolumeMM, BreakdownVolume(Tail(sb)))

\* C20: with start and end dates supplied the period of the fetches, echoed in
\* the response, runs from 00:00:00 of the start day to 23:59:59.999999999 of
\* the end day whatever time of day the dates carry, so that every row of the
\* end day is included.
C20_PeriodCoversEndDay ==
    Answered /\ req.start_date.kind = "date" /\ req.end_date.kind = "date" =>
        LET rows == RowsOnDays(store, Body.FarmID, req.start_date.n, req.end_date.n)
        IN  /\ Body.Period.Start = Instant(req.start_date.n, 0, 0)
            /\ Body.Period.End = Instant(req.end_date.n, LastSecond, 999999999)
            /\ \A sec \in {0, Noon, LastSecond}, nsec \in {0, 999999999} :
                   /\ PeriodStart(Now, Some(Instant(req.start_date.n, sec, nsec)),
                                   Some(Instant(req.end_date.n, sec, nsec)))
                          = Body.Period.Start
                   /\ PeriodEnd(Now, Some(Instant(req.start_date.n, sec, nsec)),
                                 Some(Instant(req.end_date.n, sec, nsec)))
                          = Body.Period.End
            /\ Body.TimeSeries.Pagination.TotalCount = Len(rows)
            /\ req.sector_id = Absent =>
                   BreakdownVolume(Body.SectorBreakdown) = RInt(SumReal(rows))
            /\ Body.TimeSeries.Pagination.TotalPages <= 1 /\ Body.TimeSeries.Pagination.Page = 1 =>
                   SeriesVolume(Body.TimeSeries.Data) = RInt(SumReal(rows))

\* C20 witness: the event of 2025-06-30 23:59:59.5 is in the answer for
\* end_date=2025-06-30
C20_Witness ==
    /\ Answered
    /\ req.end_date = DateText(GoDate(2025, 6, 30))
    /\ req.aggregation = "absent"
    /\ Len(Body.TimeSeries.Data) = 1
    /\ Body.TimeSeries.Data[1].Date = <<2025, 6, 30>>
    /\ Body.TimeSeries.Data[1].EventCount = 1
    /\ Len(Body.SectorBreakdown) = 1

\* C21: the body of the 500 answer to a failed fetch is generic: it does not
\* carry the storage error verbatim, and the same request failing in the same
\* fetch with another storage error text gets the same body.
C21_GenericErrorBody ==
    pc = "done" /\ ValidRequest(req) /\ fault # NoFault =>
        /\ resp.status = 500
        /\ ~ErrorsIs(resp.error, fault.err)
        /\ \A e \in DbErrors :
               \A w \in ControllerGetAnalytics(store, Now, Fault(fault.query, e), req) :
                   w.status = 500 /\ w.error = resp.error

\* the bucket pages the repository may have returned for the answered request
FetchedPages ==
    GetAnalyticsForFarmByDateRange(store, Body.FarmID, Body.Period.Start, Body.Period.End,
                                   Body.Aggregation, Body.TimeSeries.Pagination.Limit,
                                   Offset(Body.TimeSeries.Pagination.Page,
                                          Body.TimeSeries.Pagination.Limit))

\* the bucket sequences obtained from data by nulling, in any of its entries,
\* one of the three efficiency columns
WithNulls(data) ==
    {d \in [1..Len(data) ->
                UNION {{data[i],
                        [data[i] EXCEPT !.AvgEfficiency = Nil],
                        [data[i] EXCEPT !.MinEfficiency = Nil],
                        [data[i] EXCEPT !.MaxEfficiency = Nil]} : i \in 1..Len(data)}] :
        \A i \in 1..Len(data) : d[i].Period = data[i].Period /\ d[i].Year = data[i].Year}

RECURSIVE SumOfCounts(_)
SumOfCounts(data) == IF data = <<>> THEN 0 ELSE SumOfCounts(Tail(data)) + Head(data).EventCount

\* m is the reduction of the bucket sequence data
IsReductionOf(m, data) ==
    LET avgs == {data[i].AvgEfficiency : i \in 1..Len(data)} \ {Nil}
        mins == {Deref(x) : x \in {data[i].MinEfficiency : i \in 1..Len(data)} \ {Nil}}
        maxs == {Deref(x) : x \in {data[i].MaxEfficiency : i \in 1..Len(data)} \ {Nil}}
        present == NonNil([i \in 1..Len(data) |-> data[i].AvgEfficiency])
    IN  /\ m.TotalIrrigationVolumeMM = RSum([i \in 1..Len(data) |-> data[i].TotalRealAmount])
        /\ m.TotalIrrigationEvents = SumOfCounts(data)
        /\ IsNil(m.AverageEfficiency) = (avgs = {})
        /\ avgs # {} =>
               RMul(Deref(m.AverageEfficiency), RInt(Len(present))) = RSum(present)
        /\ IsNil(m.EfficiencyRange) = (avgs = {} \/ mins = {} \/ maxs = {})
        /\ ~IsNil(m.EfficiencyRange) =>
               /\ Deref(m.EfficiencyRange).Min \in mins
               /\ Deref(m.EfficiencyRange).Max \in maxs
               /\ \A v \in mins : ~RLess(v, Deref(m.EfficiencyRange).Min)
               /\ \A v \in maxs : ~RLess(Deref(m.EfficiencyRange).Max, v)
        /\ data = <<>> =>
               m = [TotalIrrigationVolumeMM |-> RInt(0), TotalIrrigationEvents |-> 0,
                    AverageEfficiency |-> Nil, EfficiencyRange |-> Nil]

C23_OneEntryPerBoundary ==
    Answered =>
        \A data \in WholeSeries(store, Now, req) :
            \A i, j \in 1..Len(data) :
                i < j => GoDate(data[i].Date[1], data[i].Date[2], data[i].Date[3])
                             < GoDate(data[j].Date[1], data[j].Date[2], data[j].Date[3])

\* C24: the range an accepted request hands to the query layer (the period of
\* the answer, passed unchanged to each of the three fetches) has
\* start <= end, for every start_date and end_date that pass validation.
C24_StartNotAfterEnd ==
    Answered => TimeLeq(Body.Period.Start, Body.Period.End)

\* the years of the three windows GetYoYComparison queries
WindowYears == {RepoCurrentYear(Now) - k : k \in 0..2}

\* month and day of the calendar day n, as one number that orders them
MonthDay(n) == MonthOf(n) * 100 + DayOf(n)

\* C26: when the requested range starts or ends on Feb 29 and the target year
\* is not a leap year, the year-shifted window is not wider than the requested
\* month/day span: it holds no record of a calendar day outside that span.
C26_LeapDayWindowNotWider ==
    Answered /\ TimeLeq(Body.Period.Start, Body.Period.End)
             /\ YearOf(Body.Period.Start[1]) = YearOf(Body.Period.End[1])
             /\ 229 \in {MonthDay(Body.Period.Start[1]), MonthDay(Body.Period.End[1])} =>
        \A y \in WindowYears :
            ~IsLeap(y) =>
                LET m == Matching(store, Body.FarmID, YearStart(y, Body.Period.Start),
                                  YearEnd(y, Body.Period.End))
                IN  \A i \in 1..Len(m) :
                        /\ MonthDay(Body.Period.Start[1]) <= MonthDay(m[i].start_time[1])
                        /\ MonthDay(m[i].start_time[1]) <= MonthDay(Body.Period.End[1])

\* C27: for every normalized range start <= end handed to GetYoYComparison,
\* each of its three year-shifted windows has start <= end and spans as many
\* calendar days as the request, also when the range crosses a year boundary.
C27_YearWindowsKeepTheSpan ==
    Answered /\ TimeLeq(Body.Period.Start, Body.Period.End) =>
        \A y \in WindowYears :
            LET from == YearStart(y, Body.Period.Start)
                to == YearEnd(y, Body.Period.End)
            IN  /\ TimeLeq(from, to)
                /\ to[1] - from[1] = Body.Period.End[1] - Body.Period.Start[1]

\* the response invocation h has written is one the handler gives over S
AnswerOver(S, h) ==
    \E w \in ControllerGetAnalytics(S, Now, NoFault, inflight[h].req) :
        inflight[h].resp = [status |-> w.status, error |-> w.error, body |-> w.body]

\* C25: requests handled concurrently over an unchanged store are independent:
\* in every interleaving each gets a response it would get when handled alone,
\* and a step of one invocation changes neither the store, nor the clock, nor
\* anything of another invocation.
C25_RequestsAreIndependent ==
    /\ [](\A h \in Handlers : inflight[h].pc = "done" => AnswerOver(store, h))
    /\ [][\A h \in Handlers :
              inflight'[h] # inflight[h] =>
                  /\ store' = store
                  /\ clock' = clock
                  /\ \A g \in Handlers \ {h} : inflight'[g] = inflight[g]]_vars

\* C25 witness: invocation 1 has answered the June request over a store with a
\* June record while invocation 2 is between the fetches of another request
C25_Witness ==
    /\ inflight[1].pc = "done"
    /\ inflight[1].req = BaseRequest
    /\ inflight[1].resp.status = 206
    /\ Deref(inflight[1].resp.body).Metrics.TotalIrrigationEvents = 1
    /\ inflight[2].pc = "yoy"
    /\ inflight[2].req # BaseRequest

\* the stores concurrent writers can produce
RacingStores ==
    {S \in SubBag([d \in ConcurrentRecordInputs |-> MaxRecords]) : BagCardinality(S) <= MaxRecords}

\* C28: the fetches of one request observe one store state: its answer (total
\* count, buckets, year-over-year totals, sector breakdown) is consistent with
\* one set of records, also when rows are inserted and deleted meanwhile.
C28_FetchesSeeOneStore ==
    inflight[1].pc = "done" => \E S \in RacingStores : AnswerOver(S, 1)

\* the methods a request invokes when every fetch succeeds, in order
FetchOrder ==
    <<"GetAnalytics", "GetAnalyticsForFarmByDateRange", "GetYoYComparison",
      "GetSectorBreakdownForFarm">>

\* the position in FetchOrder of the fetch that the failing query belongs to
FailingFetch(f) ==
    CASE f.query \in {"count", "buckets"} -> 2
      [] f.query = "yoy" -> 3
      [] f.query = "sectors" -> 4

\* C29: the fetches of a request are issued one after another in the order
\* buckets, year-over-year, sectors; the first failing fetch is the last one
\* issued; and a response document is assembled only after all three fetches
\* were issued and succeeded.
C29_FetchesInOrderUntilFailure ==
    pc = "done" /\ ValidRequest(req) =>
        /\ calls = SubSeq(FetchOrder, 1, Len(calls))
        /\ fault # NoFault => Len(calls) = FailingFetch(fault) /\ IsNil(resp.body)
        /\ ~IsNil(resp.body) => calls = FetchOrder /\ fault = NoFault

\* C29 witness: the bucket query failed and no further fetch was issued
C29_Witness ==
    /\ pc = "done"
    /\ fault.query = "buckets"
    /\ resp.status = 500
    /\ calls = <<"GetAnalytics", "GetAnalyticsForFarmByDateRange">>

\* C30: the offset (page - 1) * limit computed in 64-bit signed integers is
\* non-negative and is the mathematical product, for every page >= 1 and every
\* limit the boundary can produce: it does not wrap around for large pages.
C30_OffsetIsTheProduct ==
    arith.offset # <<>> =>
        /\ ~IsNegative(arith.offset)
        /\ arith.offset \o <<0>> = Product(Decrement(arith.page), arith.limit, 0)

====
